---- MODULE Spec2Model ----
(***************************************************************************)
(* EduMario (src/app.js): the session state machine of the App component,  *)
(* the two game-engine systems Physics and CollisionDetection, and the     *)
(* handlers the UI wires to them.                                          *)
(*                                                                         *)
(* Entity keys.  The entity table is a JavaScript object whose enemy keys  *)
(* are the string 'enemy' (the single demo slot) and 'enemy-<Date.now()>'  *)
(* (random spawns).  A key is modelled as an integer: 0 is 'enemy', t >= 1 *)
(* is 'enemy-t', and null is the absent key of currentCollidedEnemy.       *)
(* Object.keys iterates string keys in insertion order, so the enemy part  *)
(* of the table is a sequence of [key, x, y] records in insertion order.   *)
(*                                                                         *)
(* Matter.js is a library: Engine.update is modelled as the kinematic step *)
(* position.x += velocity.x of the character (enemy bodies are created at  *)
(* rest and no force acts on them: gravity.y is 0), without air friction   *)
(* and without contact resolution between bodies.                          *)
(*                                                                         *)
(* react-native-game-engine is a library: while the GameEngine is mounted  *)
(* its timer calls the systems in order once per frame, and dispatch(e)    *)
(* defers onEvent(e) with setTimeout(0).  The deferred calls are the queue *)
(* `events`; they run, in order, before the next frame or touch.           *)
(***************************************************************************)
EXTENDS Integers, Sequences, FiniteSets, TLC

\* ---- program constants ------------------------------------------------
GAME_SPEED == 2
CHARACTER_SIZE == 40
ENEMY_SIZE == 30
\* Dimensions.get('window').height of the device the model runs on
screenHeight == 800
\* x of the character body at creation and after startGame
StartX == 50
\* horizontal offset of a random spawn / of the demo enemy
SpawnAhead == 300
DemoAhead == 200
\* an enemy further than this behind the character is removed
CleanupMargin == 100
\* QUIZ_QUESTIONS[i].correct, i = 0..9 (the sequence is 1-based)
QUIZ_CORRECT == <<1, 1, 2, 2, 1, 1, 2, 2, 1, 3>>
QUIZ_LENGTH == Len(QUIZ_CORRECT)
\* every question has four options: the indexes of the option buttons
OptionIndexes == 0..3

\* ---- bounds -----------------------------------------------------------
\* Date.now() stands for the frame counter; no frame runs after MaxNow
MaxNow == 900
\* Math.random() < ENEMY_SPAWN_RATE may come out true only on the first
\* RandomTicks frames of a session
RandomTicks == 2
\* last frame of the specification with two presses against one render, and
\* of the one with handlers called outside their phase
ShortRun == 300
ApiRun == 120
\* a handler is called outside its phase only while the character is within
\* CallTicks frames of its start position, and handleQuizAnswer only while
\* fewer than CallCap correct answers were given
CallTicks == 2
CallCap == 2
\* in the scrolled specification the random spawn may fire on a frame that
\* fewer than MaxLive 'enemy-*' entries survive
MaxLive == 1
\* the values Math.random() * (screenHeight - 200) + 100 is drawn from:
\* the top of the band, the character's height, and 10 below it
RandomYs == {100, screenHeight \div 2, screenHeight \div 2 + 10}

\* ---- keys -------------------------------------------------------------
null == -1
DemoKey == 0
startsWithEnemyDash(key) == key >= 1
isEnemyKey(key) == startsWithEnemyDash(key) \/ key = DemoKey

VARIABLES
  gameRunning, gameOver, showQuiz, currentQuestion, score,
  currentCollidedEnemy,
  character,     \* characterRef.current: [x, y, vx]
  entities,      \* enemy entries of entitiesRef.current, insertion order
  events,        \* dispatched events whose onEvent call is still deferred
  now,           \* Date.now()
  rendered,      \* the score, currentQuestion and currentCollidedEnemy of
                 \* the last committed render: what the option buttons'
                 \* handleQuizAnswer closes over
  lastOp,        \* history: [op, arg], the step that produced the state
  nCorrect       \* history: correct answers since the last startGame or
                 \* resetGame

vars == <<gameRunning, gameOver, showQuiz, currentQuestion, score,
          currentCollidedEnemy, character, entities, events, now,
          rendered, lastOp, nCorrect>>

\* ---- helpers ----------------------------------------------------------
\* the values a render of App captures for the handlers it creates
Snapshot ==
  [score |-> score, currentQuestion |-> currentQuestion,
   currentCollidedEnemy |-> currentCollidedEnemy]

Keys(ents) == {ents[i].key : i \in 1..Len(ents)}

resetPosition == [x |-> StartX, y |-> screenHeight \div 2]

\* variant: the loop tests only key.startsWith('enemy-')
removeAllEnemies_dashedOnly(ents) ==
  LET Keep(e) == ~startsWithEnemyDash(e.key) IN SelectSeq(ents, Keep)

\* Object.keys(...).forEach: delete every 'enemy-*' and 'enemy' entry
removeAllEnemies(ents) ==
  LET Keep(e) == ~isEnemyKey(e.key) IN SelectSeq(ents, Keep)

\* variant: the correct branch clears the table like the wrong branch
removeEntity_everyEnemy(ents, key) == removeAllEnemies(ents)

\* variant: the body leaves the world but the entry is not deleted
removeEntity_keepsEntry(ents, key) == ents

\* delete entitiesRef.current[key]
removeEntity(ents, key) ==
  LET Keep(e) == e.key # key IN SelectSeq(ents, Keep)

\* variant: the modulus is one short
nextQuestion_shortWrap(q) == (q + 1) % (QUIZ_LENGTH - 1)

\* (currentQuestion + 1) % QUIZ_QUESTIONS.length
nextQuestion(q) == (q + 1) % QUIZ_LENGTH

\* variant: one point per answer
scoreAfterCorrect_plusOne(s) == s + 1

\* score + 10
scoreAfterCorrect(s) == s + 10

Init ==
  /\ gameRunning = FALSE
  /\ gameOver = FALSE
  /\ showQuiz = FALSE
  /\ currentQuestion = 0
  /\ score = 0
  /\ currentCollidedEnemy = null
  /\ character = [x |-> StartX, y |-> screenHeight \div 2, vx |-> 0]
  /\ entities = <<>>
  /\ events = <<>>
  /\ now = 1
  /\ rendered = [score |-> 0, currentQuestion |-> 0,
                 currentCollidedEnemy |-> null]
  /\ lastOp = [op |-> "init", arg |-> null]
  /\ nCorrect = 0

\* ---- handlers ---------------------------------------------------------
startGame ==
  /\ gameRunning' = TRUE
  /\ gameOver' = FALSE
  /\ showQuiz' = FALSE
  /\ score' = 0
  /\ currentQuestion' = 0
  /\ currentCollidedEnemy' = null
  /\ character' = [x |-> resetPosition.x, y |-> resetPosition.y, vx |-> 0]
  /\ entities' = removeAllEnemies(entities)
  /\ nCorrect' = 0
  /\ UNCHANGED <<events, now>>

\* variant: the handler opens the quiz without setGameRunning(false)
handleCollision_keepsRunning(enemyKey) ==
  /\ showQuiz' = TRUE
  /\ currentCollidedEnemy' = enemyKey
  /\ UNCHANGED <<gameRunning, gameOver, currentQuestion, score, character,
                 entities, now, nCorrect>>

\* variant: the collision ends the run instead of opening the quiz
handleCollision_gameOver(enemyKey) ==
  /\ gameRunning' = FALSE
  /\ gameOver' = TRUE
  /\ currentCollidedEnemy' = enemyKey
  /\ UNCHANGED <<showQuiz, currentQuestion, score, character, entities,
                 now, nCorrect>>

\* onEvent={handleCollision}, called with a dispatched {type: 'collision'}
\* (the handler ignores every other event type, so only these are queued)
handleCollision(enemyKey) ==
  /\ gameRunning' = FALSE
  /\ showQuiz' = TRUE
  /\ currentCollidedEnemy' = enemyKey
  /\ UNCHANGED <<gameOver, currentQuestion, score, character, entities,
                 now, nCorrect>>

\* variant: setScore(s => s + 10), the other values still from the closure
handleQuizAnswer_functionalScore(selectedOption) ==
  IF selectedOption = QUIZ_CORRECT[rendered.currentQuestion + 1]
  THEN /\ score' = score + 10
       /\ showQuiz' = FALSE
       /\ gameRunning' = TRUE
       /\ currentQuestion' = nextQuestion(rendered.currentQuestion)
       /\ entities' = IF rendered.currentCollidedEnemy # null
                         /\ rendered.currentCollidedEnemy \in Keys(entities)
                      THEN removeEntity(entities,
                                        rendered.currentCollidedEnemy)
                      ELSE entities
       /\ currentCollidedEnemy' = null
       /\ nCorrect' = nCorrect + 1
       /\ UNCHANGED <<gameOver, character, events, now>>
  ELSE /\ showQuiz' = FALSE
       /\ gameOver' = TRUE
       /\ entities' = removeAllEnemies(entities)
       /\ currentCollidedEnemy' = null
       /\ UNCHANGED <<gameRunning, currentQuestion, score, character,
                      events, now, nCorrect>>

\* score, currentQuestion and currentCollidedEnemy are the values of the
\* render that created the handler
handleQuizAnswer(selectedOption) ==
  IF selectedOption = QUIZ_CORRECT[rendered.currentQuestion + 1]
  THEN /\ score' = scoreAfterCorrect(rendered.score)
       /\ showQuiz' = FALSE
       /\ gameRunning' = TRUE
       /\ currentQuestion' = nextQuestion(rendered.currentQuestion)
       /\ entities' = IF rendered.currentCollidedEnemy # null
                         /\ rendered.currentCollidedEnemy \in Keys(entities)
                      THEN removeEntity(entities,
                                        rendered.currentCollidedEnemy)
                      ELSE entities
       /\ currentCollidedEnemy' = null
       /\ nCorrect' = nCorrect + 1
       /\ UNCHANGED <<gameOver, character, events, now>>
  ELSE /\ showQuiz' = FALSE
       /\ gameOver' = TRUE
       /\ entities' = removeAllEnemies(entities)
       /\ currentCollidedEnemy' = null
       /\ UNCHANGED <<gameRunning, currentQuestion, score, character,
                      events, now, nCorrect>>

\* variant: resetGame without setScore(0)
resetGame_keepsScore ==
  /\ gameRunning' = FALSE
  /\ gameOver' = FALSE
  /\ showQuiz' = FALSE
  /\ currentQuestion' = 0
  /\ currentCollidedEnemy' = null
  /\ entities' = removeAllEnemies(entities)
  /\ nCorrect' = 0
  /\ UNCHANGED <<score, character, events, now>>

resetGame ==
  /\ gameRunning' = FALSE
  /\ gameOver' = FALSE
  /\ showQuiz' = FALSE
  /\ score' = 0
  /\ currentQuestion' = 0
  /\ currentCollidedEnemy' = null
  /\ entities' = removeAllEnemies(entities)
  /\ nCorrect' = 0
  /\ UNCHANGED <<character, events, now>>

\* ---- the systems ------------------------------------------------------
\* entities[key] = {body, renderer}: a new key goes last, an existing key
\* keeps its place
putEntity(ents, e) ==
  IF e.key \in Keys(ents)
  THEN [i \in 1..Len(ents) |-> IF ents[i].key = e.key THEN e ELSE ents[i]]
  ELSE Append(ents, e)

\* Matter.Engine.update, then Matter.Body.setVelocity(character, ...)
moveCharacter(c) == [x |-> c.x + c.vx, y |-> c.y, vx |-> GAME_SPEED]

\* "Spawn enemies randomly": spawn is Math.random() < ENEMY_SPAWN_RATE
spawnRandom(ents, c, spawn, randomY, t) ==
  IF spawn
  THEN putEntity(ents, [key |-> t, x |-> c.x + SpawnAhead, y |-> randomY])
  ELSE ents

\* variant: the cleanup uses twice the margin
removeOffscreen_doubleMargin(ents, c) ==
  LET Keep(e) ==
        ~(startsWithEnemyDash(e.key) /\ e.x < c.x - 2 * CleanupMargin)
  IN  SelectSeq(ents, Keep)

\* "Remove enemies that are off-screen"
removeOffscreen(ents, c) ==
  LET Keep(e) == ~(startsWithEnemyDash(e.key) /\ e.x < c.x - CleanupMargin)
  IN  SelectSeq(ents, Keep)

\* "spawn a single enemy directly in front of the character"
spawnDemo(ents, c) ==
  IF DemoKey \notin Keys(ents)
     /\ {k \in Keys(ents) : startsWithEnemyDash(k)} = {}
  THEN putEntity(ents, [key |-> DemoKey, x |-> c.x + DemoAhead, y |-> c.y])
  ELSE ents

\* "Remove demo enemy if off screen"
removeDemoOffscreen(ents, c) ==
  LET Keep(e) == ~(e.key = DemoKey /\ e.x < c.x - CleanupMargin)
  IN  SelectSeq(ents, Keep)

Physics(ents, c, spawn, randomY, t) ==
  removeDemoOffscreen(
    spawnDemo(removeOffscreen(spawnRandom(ents, c, spawn, randomY, t), c), c),
    c)

\* distance < (CHARACTER_SIZE + ENEMY_SIZE) / 2, squared and times four
collides(c, e) ==
  4 * ((c.x - e.x) * (c.x - e.x) + (c.y - e.y) * (c.y - e.y))
    < (CHARACTER_SIZE + ENEMY_SIZE) * (CHARACTER_SIZE + ENEMY_SIZE)

\* the enemyKey of every dispatch of one pass, in iteration order
CollisionDetection(ents, c) ==
  LET Hit(e) == isEnemyKey(e.key) /\ collides(c, e)
      hits == SelectSeq(ents, Hit)
  IN  [i \in 1..Len(hits) |-> hits[i].key]

\* variant: the GameEngine is rendered unconditionally
engineMounted_always == TRUE

\* {gameRunning && <GameEngine .../>}
engineMounted == gameRunning

\* the frames on which the random spawn may fire
mayRandomSpawn(c) == c.x < StartX + GAME_SPEED * RandomTicks

\* ---- actions ----------------------------------------------------------
\* the Start button is rendered when !gameRunning && !gameOver; a visible
\* modal covers it
PressStart ==
  /\ ~gameRunning /\ ~gameOver /\ ~showQuiz
  /\ events = <<>>
  /\ startGame
  /\ lastOp' = [op |-> "start", arg |-> null]
  /\ rendered' = Snapshot'

\* one frame of the mounted engine: systems = [Physics, CollisionDetection]
Tick ==
  /\ engineMounted
  /\ events = <<>>
  /\ now < MaxNow
  /\ LET c == moveCharacter(character) IN
     \E spawn \in IF mayRandomSpawn(c) THEN BOOLEAN ELSE {FALSE} :
     \E randomY \in IF spawn THEN RandomYs ELSE {c.y} :
       LET ents == Physics(entities, c, spawn, randomY, now) IN
         /\ character' = c
         /\ entities' = ents
         /\ events' = CollisionDetection(ents, c)
  /\ now' = now + 1
  /\ lastOp' = [op |-> "tick", arg |-> null]
  /\ UNCHANGED <<gameRunning, gameOver, showQuiz, currentQuestion, score,
                 currentCollidedEnemy, nCorrect>>
  /\ rendered' = Snapshot'

\* the deferred onEvent call of the oldest dispatched event
DeliverEvent ==
  /\ events # <<>>
  /\ handleCollision(Head(events))
  /\ events' = Tail(events)
  /\ lastOp' = [op |-> "collision", arg |-> Head(events)]
  /\ rendered' = Snapshot'

\* an option button of the quiz modal.  The render that follows the press
\* is folded into the next step, so `rendered` still holds the values the
\* pressed button closed over.
PressOption ==
  /\ showQuiz
  /\ events = <<>>
  /\ \E index \in OptionIndexes :
       /\ handleQuizAnswer(index)
       /\ lastOp' = [op |-> "answer", arg |-> index]
  /\ UNCHANGED rendered

\* quiz Modal onRequestClose={() => setShowQuiz(false)}
CloseQuiz ==
  /\ showQuiz
  /\ events = <<>>
  /\ showQuiz' = FALSE
  /\ lastOp' = [op |-> "closeQuiz", arg |-> null]
  /\ UNCHANGED <<gameRunning, gameOver, currentQuestion, score,
                 currentCollidedEnemy, character, entities, events, now,
                 nCorrect>>
  /\ rendered' = Snapshot'

\* the Try Again button of the game-over modal
PressTryAgain ==
  /\ gameOver
  /\ events = <<>>
  /\ resetGame
  /\ lastOp' = [op |-> "reset", arg |-> null]
  /\ rendered' = Snapshot'

\* game-over Modal onRequestClose={() => setGameOver(false)}
CloseGameOver ==
  /\ gameOver
  /\ events = <<>>
  /\ gameOver' = FALSE
  /\ lastOp' = [op |-> "closeGameOver", arg |-> null]
  /\ UNCHANGED <<gameRunning, showQuiz, currentQuestion, score,
                 currentCollidedEnemy, character, entities, events, now,
                 nCorrect>>
  /\ rendered' = Snapshot'

Next ==
  \/ PressStart
  \/ Tick
  \/ DeliverEvent
  \/ PressOption
  \/ CloseQuiz
  \/ PressTryAgain
  \/ CloseGameOver

Spec == Init /\ [][Next]_vars

\* ---- two presses against one render ----------------------------------
\* a second press of an option button of the render the last press was
\* made against, handled before that render is replaced.  React commits the
\* updates of a press before it handles the next one, so Spec has no such
\* step; this specification adds it.
PressOptionAgain ==
  /\ lastOp.op = "answer"
  /\ events = <<>>
  /\ \E index \in OptionIndexes :
       /\ handleQuizAnswer(index)
       /\ lastOp' = [op |-> "answerAgain", arg |-> index]
  /\ UNCHANGED rendered

NextSameRender ==
  \/ Next /\ now' <= ShortRun
  \/ PressOptionAgain

SpecSameRender == Init /\ [][NextSameRender]_vars

\* ---- handlers called outside their phase ------------------------------
\* startGame called while the game is running
StartWhileRunning ==
  /\ gameRunning
  /\ events = <<>>
  /\ character.x < StartX + GAME_SPEED * CallTicks
  /\ startGame
  /\ lastOp' = [op |-> "start", arg |-> null]
  /\ rendered' = Snapshot'

\* handleQuizAnswer called while the quiz is not open
AnswerOutsideQuiz ==
  /\ ~showQuiz
  /\ events = <<>>
  /\ character.x < StartX + GAME_SPEED * CallTicks
  /\ nCorrect < CallCap
  /\ \E index \in OptionIndexes :
       /\ handleQuizAnswer(index)
       /\ lastOp' = [op |-> "answer", arg |-> index]
  /\ UNCHANGED rendered

NextApi ==
  \/ Next /\ now' <= ApiRun
  \/ StartWhileRunning
  \/ AnswerOutsideQuiz

SpecApi == Init /\ [][NextApi]_vars

\* ---- the scene in the character's frame --------------------------------
\* Physics and CollisionDetection read positions only through differences
\* to character.position, and keys only through equality.  The scrolled
\* frame step is Tick followed by a translation that puts the character
\* back on StartX, with the smallest unused number standing for Date.now()
\* in the new key; runs of any length then stay in a finite state space.
freshKey(ents) ==
  CHOOSE k \in 1..(Len(ents) + 2) :
    /\ k \notin Keys(ents) \cup {currentCollidedEnemy}
    /\ \A j \in 1..(k - 1) : j \in Keys(ents) \cup {currentCollidedEnemy}

scrolled(ents, shift) ==
  [i \in 1..Len(ents) |->
     [key |-> ents[i].key, x |-> ents[i].x - shift, y |-> ents[i].y]]

liveRandom(ents) ==
  Cardinality({k \in Keys(ents) : startsWithEnemyDash(k)})

TickScrolled ==
  /\ engineMounted
  /\ events = <<>>
  /\ LET c == moveCharacter(character) IN
     \E spawn \in IF liveRandom(removeOffscreen(entities, c)) < MaxLive
                  THEN BOOLEAN ELSE {FALSE} :
     \E randomY \in IF spawn THEN RandomYs ELSE {c.y} :
       LET ents == Physics(entities, c, spawn, randomY, freshKey(entities)) IN
         /\ character' = [x |-> StartX, y |-> c.y, vx |-> c.vx]
         /\ entities' = scrolled(ents, c.x - StartX)
         /\ events' = CollisionDetection(ents, c)
  /\ lastOp' = [op |-> "tick", arg |-> null]
  /\ UNCHANGED <<gameRunning, gameOver, showQuiz, currentQuestion, score,
                 currentCollidedEnemy, now, nCorrect>>
  /\ rendered' = Snapshot'

NextLive ==
  \/ PressStart
  \/ TickScrolled
  \/ DeliverEvent
  \/ PressOption /\ nCorrect' <= CallCap
  \/ CloseQuiz
  \/ PressTryAgain
  \/ CloseGameOver

\* the engine's timer fires while the GameEngine is mounted, and a deferred
\* onEvent call is not postponed forever
SpecLive ==
  /\ Init
  /\ [][NextLive]_vars
  /\ WF_vars(TickScrolled)
  /\ WF_vars(DeliverEvent)

\* ---- phases -----------------------------------------------------------
Idle == ~gameRunning /\ ~showQuiz /\ ~gameOver
Running == gameRunning /\ ~showQuiz /\ ~gameOver
Quiz == ~gameRunning /\ showQuiz /\ ~gameOver
GameOver == ~gameRunning /\ ~showQuiz /\ gameOver

TypeOK ==
  /\ gameRunning \in BOOLEAN /\ gameOver \in BOOLEAN /\ showQuiz \in BOOLEAN
  /\ currentQuestion \in 0..(QUIZ_LENGTH - 1)
  /\ score \in Nat
  /\ currentCollidedEnemy \in {null} \cup Nat
  /\ \A i \in 1..Len(entities) : isEnemyKey(entities[i].key)
  /\ \A i, j \in 1..Len(entities) : entities[i].key = entities[j].key => i = j

Phase ==
  IF Idle THEN "Idle"
  ELSE IF Running THEN "Running"
  ELSE IF Quiz THEN "Quiz"
  ELSE IF GameOver THEN "GameOver"
  ELSE "none"

\* ---- claims -----------------------------------------------------------
\* C1: a state produced by startGame is Running with score 0, question 0,
\* no pending obstacle, the character at (50, screenHeight / 2) and no live
\* obstacle, whatever the state the button was pressed in.
C1_StartYieldsFreshRun ==
  lastOp.op = "start" =>
    /\ Running
    /\ score = 0
    /\ currentQuestion = 0
    /\ currentCollidedEnemy = null
    /\ character.x = 50 /\ 2 * character.y = screenHeight
    /\ entities = <<>>

\* a restart: startGame pressed after frames have run
C1_Witness == lastOp.op = "start" /\ now > 1 /\ Running

\* C2: in Quiz, an answer equal to the correct index of the active question
\* yields Running with score + 10, the question index advanced by one modulo
\* the bank length, the pending obstacle not live and the pending key null.
C2_CorrectAnswer ==
  [][(Quiz /\ lastOp'.op = "answer"
        /\ lastOp'.arg = QUIZ_CORRECT[currentQuestion + 1])
     => /\ Running'
        /\ score' = score + 10
        /\ currentQuestion' = (currentQuestion + 1) % 10
        /\ currentCollidedEnemy \notin Keys(entities')
        /\ currentCollidedEnemy' = null]_vars

\* a correct answer has just resumed the run
C2_Witness ==
  lastOp.op = "answer" /\ Running /\ score = 10 /\ currentQuestion = 1

\* C3: in Quiz, an answer different from the correct index yields GameOver
\* with no obstacle left, the pending key null, score and question index
\* unchanged.
C3_WrongAnswer ==
  [][(Quiz /\ lastOp'.op = "answer"
        /\ lastOp'.arg # QUIZ_CORRECT[currentQuestion + 1])
     => /\ GameOver'
        /\ entities' = <<>>
        /\ currentCollidedEnemy' = null
        /\ score' = score
        /\ currentQuestion' = currentQuestion]_vars

\* a wrong answer after a correct one: the score survives into GameOver
C3_Witness == lastOp.op = "answer" /\ GameOver /\ score = 10

\* C4: score is a non-negative multiple of 10 in every reachable state.
C4_ScoreMultipleOfTen == score >= 0 /\ score % 10 = 0

\* three correct answers in one session
C4_Witness == score = 30

\* C5: within a session currentQuestion is the number of correct answers
\* modulo the bank length, and neither a wrong answer nor a collision
\* changes it.
C5_QuestionIndexCountsCorrect ==
  /\ [](currentQuestion = nCorrect % 10)
  /\ [][(lastOp'.op = "collision"
         \/ (lastOp'.op = "answer"
             /\ lastOp'.arg # QUIZ_CORRECT[currentQuestion + 1]))
        => currentQuestion' = currentQuestion]_vars

\* the tenth correct answer of a session wraps the index to 0
C5_Witness == nCorrect = 10 /\ currentQuestion = 0 /\ lastOp.op = "answer"

\* C6: a collision event handled while Running moves the session to Quiz
\* with the colliding obstacle recorded as pending, and leaves score and
\* question index unchanged.
C6_CollisionOpensQuiz ==
  [][(Running /\ lastOp'.op = "collision")
     => /\ Quiz'
        /\ currentCollidedEnemy' = lastOp'.arg
        /\ currentCollidedEnemy' # null
        /\ score' = score
        /\ currentQuestion' = currentQuestion]_vars

\* the quiz is open on a live obstacle
C6_Witness ==
  lastOp.op = "collision" /\ Quiz /\ currentCollidedEnemy \in Keys(entities)

\* C7: one pass of the collision detector raises at most one collision
\* signal, even when several obstacles are within collision distance.
C7_AtMostOneSignalPerTick == lastOp.op = "tick" => Len(events) <= 1

\* C8: while the quiz is open the pending obstacle stays live, and no
\* collision event handled during the quiz names the pending obstacle again.
C8_PendingSurvivesQuiz ==
  /\ [](Quiz => (currentCollidedEnemy # null
                 /\ currentCollidedEnemy \in Keys(entities)))
  /\ [][(Quiz /\ lastOp'.op # "answer")
        => currentCollidedEnemy \in Keys(entities')]_vars
  /\ [][(Quiz /\ lastOp'.op = "collision")
        => lastOp'.arg # currentCollidedEnemy]_vars

\* the quiz is open while another obstacle is live beside the pending one
C8_Witness ==
  /\ Quiz /\ events = <<>>
  /\ currentCollidedEnemy \in Keys(entities)
  /\ Len(entities) >= 2

\* C9: frames run only while Running; in Idle, Quiz and GameOver the
\* character and the obstacles change only by a start, an answer or a reset.
C9_NoTickOutsideRunning ==
  /\ [][lastOp'.op = "tick" => Running]_vars
  /\ [][(~Running /\ (character' # character \/ entities' # entities))
        => lastOp'.op \in {"start", "answer", "reset"}]_vars

\* a dismissed quiz: not Running, obstacles still live, the character away
\* from its start
C9_Witness ==
  /\ lastOp.op = "closeQuiz" /\ Idle
  /\ entities # <<>> /\ character.x > 50

\* C10: the phase changes only by start from Idle or GameOver to Running,
\* collision from Running to Quiz, a correct answer from Quiz to Running, a
\* wrong answer from Quiz to GameOver, and reset to Idle.
C10_OnlyLegalTransitions ==
  [][Phase' # Phase =>
       \/ Phase \in {"Idle", "GameOver"} /\ Phase' = "Running"
            /\ lastOp'.op = "start"
       \/ Phase = "Running" /\ Phase' = "Quiz" /\ lastOp'.op = "collision"
       \/ Phase = "Quiz" /\ Phase' = "Running" /\ lastOp'.op = "answer"
            /\ lastOp'.arg = QUIZ_CORRECT[currentQuestion + 1]
       \/ Phase = "Quiz" /\ Phase' = "GameOver" /\ lastOp'.op = "answer"
            /\ lastOp'.arg # QUIZ_CORRECT[currentQuestion + 1]
       \/ Phase' = "Idle" /\ lastOp'.op = "reset"]_vars

\* C11: from GameOver, the restart action offered to the player (the Try
\* Again button) takes the session to Running with score 0.
C11_TryAgainRestarts ==
  [][(GameOver /\ lastOp'.op = "reset") => (Running' /\ score' = 0)]_vars

\* C12: a state produced by resetGame is Idle with score 0, question 0, no
\* pending obstacle and no live obstacle.
C12_ResetYieldsIdle ==
  lastOp.op = "reset" =>
    /\ ~gameRunning /\ ~showQuiz /\ ~gameOver
    /\ score = 0
    /\ currentQuestion = 0
    /\ currentCollidedEnemy = null
    /\ entities = <<>>

\* Try Again pressed after a run that moved the character
C12_Witness == lastOp.op = "reset" /\ Idle /\ character.x > 50

\* C14: a correct answer removes exactly the pending obstacle: every other
\* obstacle stays live where it was and the character does not move.
C14_CorrectAnswerFrame ==
  [][(Quiz /\ lastOp'.op = "answer"
        /\ lastOp'.arg = QUIZ_CORRECT[currentQuestion + 1])
     => /\ character' = character
        /\ Len(entities') = Len(entities) - 1
        /\ currentCollidedEnemy \notin Keys(entities')
        /\ \A i \in 1..Len(entities) :
             entities[i].key # currentCollidedEnemy
               => \E j \in 1..Len(entities') : entities'[j] = entities[i]]_vars

\* a correct answer has resumed the run with another obstacle still live
C14_Witness ==
  lastOp.op = "answer" /\ Running /\ score > 0 /\ Len(entities) >= 1

\* C15: after every Physics pass no live obstacle is more than the cleanup
\* margin of 100 behind the character.
C15_NoObstacleFarBehind ==
  lastOp.op = "tick" =>
    \A i \in 1..Len(entities) : entities[i].x >= character.x - 100

\* an obstacle exactly on the margin: the next pass removes it
C15_Witness ==
  /\ lastOp.op = "tick"
  /\ \E i \in 1..Len(entities) : entities[i].x = character.x - 100

\* C16: while Running, after every Physics pass at least one live obstacle
\* is ahead of the character.
C16_ObstacleAhead ==
  (lastOp.op = "tick" /\ Running) =>
    \E i \in 1..Len(entities) : entities[i].x > character.x

\* C17: at most one of gameRunning, showQuiz and gameOver is true.
C17_OnePhaseFlag ==
  /\ ~(gameRunning /\ showQuiz)
  /\ ~(gameRunning /\ gameOver)
  /\ ~(showQuiz /\ gameOver)

\* the second of two collision events of one pass, handled with the quiz
\* already open
C17_Witness ==
  /\ lastOp.op = "collision" /\ Quiz /\ events = <<>>
  /\ Len(entities) >= 2
  /\ currentCollidedEnemy = entities[Len(entities)].key

\* C18: currentCollidedEnemy is non-null exactly in Quiz, and when non-null
\* it is the key of a live obstacle.
C18_PendingIffQuiz ==
  /\ (currentCollidedEnemy # null) <=> Quiz
  /\ currentCollidedEnemy # null => currentCollidedEnemy \in Keys(entities)

\* C13: handleQuizAnswer called when the phase is not Quiz, and startGame
\* called when the phase is Running, change no session state.
C13_OutOfPhaseCallsAreNoOps ==
  [][((~Quiz /\ lastOp'.op = "answer") \/ (Running /\ lastOp'.op = "start"))
     => UNCHANGED <<gameRunning, gameOver, showQuiz, score, currentQuestion,
                    currentCollidedEnemy, character, entities>>]_vars

C20_RunningLeadsToQuiz == Running ~> Quiz

====
